---- MODULE Spec2Model ----
(***************************************************************************)
(* Game Crafter (yao-craft): the Next hook that reads the generated game   *)
(* files from the sandbox workspace, normalises them into a SUI page       *)
(* source and publishes it at /ai/{chat_id}.                               *)
(*                                                                         *)
(* Texts (file contents, scripts, markup) are sequences of lexemes: each   *)
(* lexeme is the string of characters it stands for, and the text is the   *)
(* concatenation of its lexemes.  The regular expressions of sui.ts are    *)
(* translated to matchers over these sequences.                            *)
(***************************************************************************)
EXTENDS Integers, Sequences, FiniteSets, TLC

VARIABLES
    js,         \* SpecJs: the script text handed to the script wrapper
    jsPc,       \* SpecJs: "input", "wrapped" (wrapJsForSui applied once), "rewrapped"
    jsOut,      \* SpecJs: the result of the last wrapJsForSui call
    jsOut2,     \* SpecJs: the result of wrapJsForSui applied to jsOut
    jsFlag,     \* SpecJs: isAlreadyWrapped(js), where it has been evaluated
    doc,        \* SpecDoc: the markup document handed to the content extraction
    docPc,      \* SpecDoc: "input", or the function applied: "body", "single", "fonts"
    docOut,     \* SpecDoc: what the function returned
    store,      \* the page storage service: route -> the page source it holds
    apiCall,    \* SpecPage: the last call of createGamePage / buildGamePage and its completion
    overwrote,  \* SpecPage: a successful save has replaced a different page at its route
    ws,         \* the sandbox workspace: game.zip, game.html, game.css, game.js
    dir,        \* the scratch directory game_extracted of the workspace
    ctx,        \* the agent context of the conversation: chat_id, locale, sandbox
    memory,     \* ctx.memory.context: chat_id and start_time
    pc,         \* per invocation of the Next hook: the call it is about to make
    loc         \* per invocation: its locals, what it has sent and called, its result

jsVars == <<js, jsPc, jsOut, jsOut2, jsFlag>>
docVars == <<doc, docPc, docOut>>
pageVars == <<apiCall, overwrote>>
hookVars == <<ws, dir, ctx, memory, pc, loc>>
vars == <<jsVars, docVars, store, pageVars, hookVars>>

----------------------------------------------------------------------------
(* Bounds *)

MaxJsLen == 4       \* longest script text (in lexemes) given to the script wrapper
MaxCalls == 2       \* SpecPage: the number of calls of createGamePage / buildGamePage
MaxPieces == 4      \* SpecDoc: the number of pieces a markup document is put together from

----------------------------------------------------------------------------
(* Lexemes *)

NL == "\n"
SP == " "
DefInit == "function init() {"
DefMain == "function main() {"
CallInit == "init()"
CallMain == "main()"
DefTokens == {DefInit, DefMain}
CallTokens == {CallInit, CallMain}

\* the lexemes script texts are drawn from: "x" is any other code, "//" opens a
\* line comment
JsTokens == {DefInit, DefMain, CallInit, CallMain, ";", SP, NL, "//", "x"}

\* \s
IsSpace(tok) == tok \in {SP, NL}

RECURSIVE SeqsUpTo(_, _)
SeqsUpTo(S, n) ==
    IF n = 0 THEN {<<>>}
    ELSE LET shorter == SeqsUpTo(S, n - 1)
         IN  shorter \cup {Append(s, t) : s \in {u \in shorter : Len(u) = n - 1}, t \in S}

Last(s) == s[Len(s)]
Front(s) == SubSeq(s, 1, Len(s) - 1)

----------------------------------------------------------------------------
(* String.prototype.trim *)

RECURSIVE TrimLeft(_)
TrimLeft(s) == IF s /= <<>> /\ IsSpace(Head(s)) THEN TrimLeft(Tail(s)) ELSE s

RECURSIVE TrimRight(_)
TrimRight(s) == IF s /= <<>> /\ IsSpace(Last(s)) THEN TrimRight(Front(s)) ELSE s

Trim(s) == TrimRight(TrimLeft(s))

----------------------------------------------------------------------------
(* sui.ts: JavaScript wrapping *)

\* ^ under the m flag: the start of the text and the place after every line break
LineStarts(t) == {1} \cup {i + 1 : i \in {k \in 1..Len(t) : t[k] = NL}}

\* the index of the first line break at or after i, 0 when there is none
RECURSIVE NextNewline(_, _)
NextNewline(t, i) ==
    IF i > Len(t) THEN 0
    ELSE IF t[i] = NL THEN i
    ELSE NextNewline(t, i + 1)

\* \s*(\/\/[^\n]*\n|\s)*function\s+(init|main)\s*\(\s*\)\s*\{  matched from i
RECURSIVE MatchesDefFrom(_, _)
MatchesDefFrom(t, i) ==
    IF i > Len(t) THEN FALSE
    ELSE IF t[i] \in DefTokens THEN TRUE
    ELSE IF IsSpace(t[i]) THEN MatchesDefFrom(t, i + 1)
    ELSE IF t[i] = "//"
         THEN LET nl == NextNewline(t, i)
              IN  IF nl = 0 THEN FALSE ELSE MatchesDefFrom(t, nl + 1)
    ELSE FALSE

\* /^\s*(\/\/[^\n]*\n|\s)*function\s+(init|main)\s*\(\s*\)\s*\{/m.test(trimmed)
HasInitFunction(t) == \E i \in LineStarts(t) : MatchesDefFrom(t, i)

\* mutant: the pattern without the optional semicolon
EndsWithCallNoSemicolon(t) ==
    LET a == TrimRight(t) IN a /= <<>> /\ Last(a) \in CallTokens

\* /(init|main)\s*\(\s*\)\s*;?\s*$/.test(trimmed)
EndsWithCall(t) ==
    LET a == TrimRight(t)
        b == IF a /= <<>> /\ Last(a) = ";" THEN TrimRight(Front(a)) ELSE a
    IN  b /= <<>> /\ Last(b) \in CallTokens

IsAlreadyWrapped(s) ==
    LET trimmed == Trim(s)
    IN  HasInitFunction(trimmed) /\ EndsWithCall(trimmed)

\* mutant: the wrapper defines init and does not call it
InitWrapperNoCall(s) == <<DefInit, NL>> \o s \o <<NL, "}">>

\* `function init() {\n${js}\n}\n\ninit();`
InitWrapper(s) == <<DefInit, NL>> \o s \o <<NL, "}", NL, NL, CallInit, ";">>

WrapJsForSui(s) == IF IsAlreadyWrapped(s) THEN s ELSE InitWrapper(s)

----------------------------------------------------------------------------
(* sui.ts: content extraction *)

\* JavaScript null / undefined (a value that is no text)
Null == <<"<null>">>

\* !v for a text or null
Falsy(v) == v = Null \/ v = <<>>

HasPrefix(tok, pre) == Len(tok) >= Len(pre) /\ SubSeq(tok, 1, Len(pre)) = pre
HasSuffix(tok, suf) ==
    Len(tok) >= Len(suf) /\ SubSeq(tok, Len(tok) - Len(suf) + 1, Len(tok)) = suf

\* <name[^>]*>  (a lexeme holds at most one tag)
IsOpenTag(name, tok) == HasPrefix(tok, "<" \o name) /\ HasSuffix(tok, ">")

\* <\/name>
IsCloseTag(name, tok) == tok = "</" \o name \o ">"

\* <\/?name[^>]*>
IsAnyTag(name, tok) ==
    \/ IsOpenTag(name, tok)
    \/ HasPrefix(tok, "</" \o name) /\ HasSuffix(tok, ">")

\* the index of the first opening tag of name at or after i, 0 when there is none
RECURSIVE FirstOpen(_, _, _)
FirstOpen(name, h, i) ==
    IF i > Len(h) THEN 0
    ELSE IF IsOpenTag(name, h[i]) THEN i
    ELSE FirstOpen(name, h, i + 1)

\* the index of the first closing tag of name at or after i, 0 when there is none
RECURSIVE FirstClose(_, _, _)
FirstClose(name, h, i) ==
    IF i > Len(h) THEN 0
    ELSE IF IsCloseTag(name, h[i]) THEN i
    ELSE FirstClose(name, h, i + 1)

\* h.match(/<name[^>]*>([\s\S]*?)<\/name>/gi): the matches from i on, in order,
\* each as <<index of its opening tag, index of its closing tag>>
RECURSIVE Blocks(_, _, _)
Blocks(name, h, i) ==
    LET j == FirstOpen(name, h, i)
        k == IF j = 0 THEN 0 ELSE FirstClose(name, h, j + 1)
    IN  IF j = 0 \/ k = 0 THEN <<>>
        ELSE <<(<<j, k>>)>> \o Blocks(name, h, k + 1)

\* s.replace(/<\/?name[^>]*>/gi, "")
RECURSIVE StripTags(_, _)
StripTags(name, s) ==
    IF s = <<>> THEN <<>>
    ELSE IF IsAnyTag(name, Head(s)) THEN StripTags(name, Tail(s))
    ELSE <<Head(s)>> \o StripTags(name, Tail(s))

\* texts.join("\n")
RECURSIVE JoinLines(_)
JoinLines(texts) ==
    IF texts = <<>> THEN <<>>
    ELSE IF Len(texts) = 1 THEN texts[1]
    ELSE texts[1] \o <<NL>> \o JoinLines(Tail(texts))

\* the inner texts of the blocks of one kind, joined by "\n"; "" without a match
ExtractBlocks(name, html) ==
    LET m == Blocks(name, html, 1)
    IN  JoinLines([n \in 1..Len(m) |-> StripTags(name, SubSeq(html, m[n][1], m[n][2]))])

ExtractFromSingleFile(html) ==
    [css |-> ExtractBlocks("style", html), js |-> ExtractBlocks("script", html)]

\* content.replace(/<name[^>]*>[\s\S]*?<\/name>/gi, "") from i on
RECURSIVE RemoveBlocks(_, _, _)
RemoveBlocks(name, h, i) ==
    LET j == FirstOpen(name, h, i)
        k == IF j = 0 THEN 0 ELSE FirstClose(name, h, j + 1)
    IN  IF j = 0 \/ k = 0 THEN SubSeq(h, i, Len(h))
        ELSE SubSeq(h, i, j - 1) \o RemoveBlocks(name, h, k + 1)

\* html.match(/<name[^>]*>([\s\S]*?)<\/name>/i): <<found, group 1>>
FirstSection(name, html) ==
    LET j == FirstOpen(name, html, 1)
        k == IF j = 0 THEN 0 ELSE FirstClose(name, html, j + 1)
    IN  IF j = 0 \/ k = 0 THEN [found |-> FALSE, inner |-> <<>>]
        ELSE [found |-> TRUE, inner |-> SubSeq(html, j + 1, k - 1)]

ExtractBodyContent(html) ==
    LET bodyMatch == FirstSection("body", html)
        content == IF bodyMatch.found THEN bodyMatch.inner ELSE html
        noStyle == RemoveBlocks("style", content, 1)
        noScript == RemoveBlocks("script", noStyle, 1)
    IN  Trim(noScript)

\* a stylesheet link lexeme is <link rel='stylesheet' href='HREF'>
LinkPrefix == "<link rel='stylesheet' href='"
LinkSuffix == "'>"
FontHost == "fonts.googleapis.com"

IsLink(tok) ==
    /\ HasPrefix(tok, LinkPrefix) /\ HasSuffix(tok, LinkSuffix)
    /\ Len(tok) > Len(LinkPrefix) + Len(LinkSuffix)

LinkHref(tok) == SubSeq(tok, Len(LinkPrefix) + 1, Len(tok) - Len(LinkSuffix))

\* [^"']+fonts\.googleapis\.com[^"']+ matched against the whole href
IsFontHref(href) ==
    \E i \in 2..(Len(href) - Len(FontHost)) :
        SubSeq(href, i, i + Len(FontHost) - 1) = FontHost

\* /<link[^>]+href=["']([^"']+fonts\.googleapis\.com[^"']+)["'][^>]*>/gi
IsFontLink(tok) == IsLink(tok) /\ IsFontHref(LinkHref(tok))

\* `@import url('${href}');`
ImportOf(tok) == "@import url('" \o LinkHref(tok) \o "');"

RECURSIVE FontImportsOf(_)
FontImportsOf(head) ==
    IF head = <<>> THEN <<>>
    ELSE IF IsFontLink(Head(head))
         THEN <<(<<ImportOf(Head(head))>>)>> \o FontImportsOf(Tail(head))
    ELSE FontImportsOf(Tail(head))

ExtractFontImports(html) ==
    LET headMatch == FirstSection("head", html)
    IN  IF ~headMatch.found THEN <<>>
        ELSE JoinLines(FontImportsOf(headMatch.inner))

----------------------------------------------------------------------------
(* sui.ts: SUI page operations *)

ChatIds == {"c1", "c2"}

\* `/ai/${chatId}`
PageRoute(chatId) == "/ai/" \o chatId

Routes == {PageRoute(c) : c \in ChatIds}

\* how a call completes: it returns value, or it throws an error with message
Returned(v) == [threw |-> FALSE, message |-> "", value |-> v]
Thrown(m) == [threw |-> TRUE, message |-> m, value |-> [success |-> FALSE]]

\* the messages of the faults Process(...) can throw
ProcessFaults == {"disk full", "route locked"}
ProcessOutcomes == {Returned([success |-> TRUE])} \cup {Thrown(m) : m \in ProcessFaults}

\* the message of the TypeError of null.match(...)
NullMatchMessage == "Cannot read properties of null (reading 'match')"

\* mutant: a kind is persisted only when its text is not empty
NeedToSaveNonEmpty(bodyContent, finalCss, finalJs) ==
    [page |-> bodyContent /= <<>>, style |-> finalCss /= <<>>,
     script |-> finalJs /= <<>>, setting |-> TRUE]

NeedToSave(bodyContent, finalCss, finalJs) ==
    [page |-> TRUE, style |-> TRUE, script |-> TRUE, setting |-> TRUE]

\* mutant: the explicit text and the extracted text are merged
SelectedMerged(explicit, extracted) ==
    IF Falsy(explicit) THEN extracted ELSE explicit \o <<NL>> \o extracted

\* explicit || extracted
Selected(explicit, extracted) == IF Falsy(explicit) THEN extracted ELSE explicit

\* mutant: the font imports are dropped
WithFontImportsDropped(fontImports, css) == css

\* if (fontImports) finalCss = `${fontImports}\n\n${finalCss}`
WithFontImports(fontImports, css) ==
    IF fontImports /= <<>> THEN fontImports \o <<NL, NL>> \o css ELSE css

\* the source object createGamePage hands to sui.page.save ("" is no title)
PageSource(chatId, gameFiles, title) ==
    LET bodyContent == ExtractBodyContent(gameFiles.html)
        extracted == ExtractFromSingleFile(gameFiles.html)
        fontImports == ExtractFontImports(gameFiles.html)
        finalCss == WithFontImports(fontImports, Selected(gameFiles.css, extracted.css))
        rawJs == Selected(gameFiles.js, extracted.js)
        finalJs == WrapJsForSui(rawJs)
    IN  [uid |-> chatId,
         page |-> [source |-> bodyContent, language |-> "html"],
         style |-> [source |-> finalCss, language |-> "css"],
         script |-> [source |-> finalJs, language |-> "javascript"],
         setting |-> [title |-> IF title = "" THEN "Game" ELSE title],
         needToSave |-> NeedToSave(bodyContent, finalCss, finalJs)]

\* a route nothing has been saved at
NoPage == [page |-> Null, style |-> Null, script |-> Null, title |-> ""]
EmptyStore == [r \in Routes |-> NoPage]

\* Process("sui.page.save", suiId, templateId, route, source): each kind whose
\* persist flag is set replaces what the route holds for that kind
SuiPageSave(st, route, source) ==
    [st EXCEPT ![route] =
        [page |-> IF source.needToSave.page THEN source.page.source ELSE @.page,
         style |-> IF source.needToSave.style THEN source.style.source ELSE @.style,
         script |-> IF source.needToSave.script THEN source.script.source ELSE @.script,
         title |-> IF source.needToSave.setting THEN source.setting.title ELSE @.title]]

\* createGamePage reaches its Process("sui.page.save", ...) call
ReachesSave(gameFiles) == gameFiles.html /= Null

\* the try block of createGamePage; outcome is how Process("sui.page.save") completes
CreateGamePageTry(chatId, gameFiles, title, outcome) ==
    IF ~ReachesSave(gameFiles) THEN Thrown(NullMatchMessage)
    ELSE IF outcome.threw THEN Thrown(outcome.message)
    ELSE Returned([success |-> TRUE, route |-> PageRoute(chatId),
                   url |-> PageRoute(chatId), error |-> ""])

\* mutant: the catch block reports a fixed text instead of e.message
CreateGamePageOwnMessage(chatId, gameFiles, title, outcome) ==
    LET body == CreateGamePageTry(chatId, gameFiles, title, outcome)
    IN  IF body.threw
        THEN Returned([success |-> FALSE, route |-> PageRoute(chatId),
                       url |-> PageRoute(chatId), error |-> "Failed to create SUI page"])
        ELSE body

CreateGamePage(chatId, gameFiles, title, outcome) ==
    LET body == CreateGamePageTry(chatId, gameFiles, title, outcome)
    IN  IF body.threw
        THEN Returned([success |-> FALSE, route |-> PageRoute(chatId),
                       url |-> PageRoute(chatId), error |-> body.message])
        ELSE body

\* the page storage after createGamePage
StoreAfterCreate(st, chatId, gameFiles, title, outcome) ==
    IF ReachesSave(gameFiles) /\ ~outcome.threw
    THEN SuiPageSave(st, PageRoute(chatId), PageSource(chatId, gameFiles, title))
    ELSE st

\* outcome is how Process("sui.build.page", ...) completes
BuildGamePage(pageRoute, outcome) ==
    IF outcome.threw THEN Returned([success |-> FALSE, error |-> outcome.message])
    ELSE Returned([success |-> TRUE, error |-> ""])

----------------------------------------------------------------------------
(* Texts of the game files *)

FontLinkA == "<link rel='stylesheet' href='https://fonts.googleapis.com/css?family=A'>"

\* a self-contained document: font link and style in the head, script in the body
SingleFileDoc ==
    <<"<head>", FontLinkA, "<style>", "css1", "</style>", "</head>",
      "<body>", "div1", "<script>", "js1", "</script>", "</body>">>

\* a bare markup fragment
FragmentDoc == <<"div2">>

\* a script already in deferred form
WrappedJs == <<DefMain, NL, "x", NL, "}", NL, CallMain, ";">>

----------------------------------------------------------------------------
(* SpecPage: createGamePage and buildGamePage called directly *)

PageHtmls == {Null, SingleFileDoc, FragmentDoc}
PageCss == {<<>>, <<"css2">>}
PageJs == {<<>>, <<"x">>}
PageTitles == {"", "Test Game"}
\* game files without a stylesheet, and without a script or with one that is
\* already in deferred form
PageSparseFiles == [html : {SingleFileDoc, FragmentDoc}, css : {Null}, js : {Null, WrappedJs}]
PageGameFiles == [html : PageHtmls, css : PageCss, js : PageJs] \cup PageSparseFiles

NoGameFiles == [html |-> Null, css |-> Null, js |-> Null]

\* no source object was handed to sui.page.save
NoPayload ==
    [uid |-> "", page |-> [source |-> Null, language |-> "html"],
     style |-> [source |-> Null, language |-> "css"],
     script |-> [source |-> Null, language |-> "javascript"],
     setting |-> [title |-> ""],
     needToSave |-> [page |-> FALSE, style |-> FALSE, script |-> FALSE, setting |-> FALSE]]

\* the last call: its arguments, how its Process call completes, what it handed
\* to Process as the source (payload), and what it returned (completion)
NoCall == [n |-> 0, op |-> "none", chatId |-> "", gameFiles |-> NoGameFiles, title |-> "",
           outcome |-> Returned([success |-> TRUE]), payload |-> NoPayload,
           completion |-> Thrown("")]

PageIdle ==
    /\ store = EmptyStore
    /\ apiCall = NoCall
    /\ overwrote = FALSE

PageInit == PageIdle

\* result = createGamePage(chatId, gameFiles, title)
CallCreateGamePage ==
    \E chatId \in ChatIds, gameFiles \in PageGameFiles, title \in PageTitles,
       outcome \in ProcessOutcomes :
        LET after == StoreAfterCreate(store, chatId, gameFiles, title, outcome)
        IN  /\ apiCall.n < MaxCalls
            /\ store' = after
            /\ apiCall' = [n |-> apiCall.n + 1, op |-> "create", chatId |-> chatId, gameFiles |-> gameFiles,
                           title |-> title, outcome |-> outcome,
                           payload |-> IF ReachesSave(gameFiles)
                                       THEN PageSource(chatId, gameFiles, title)
                                       ELSE NoPayload,
                           completion |-> CreateGamePage(chatId, gameFiles, title, outcome)]
            /\ overwrote' = (/\ store[PageRoute(chatId)] /= NoPage
                             /\ after[PageRoute(chatId)] /= store[PageRoute(chatId)])

\* result = buildGamePage(route)
CallBuildGamePage ==
    \E chatId \in ChatIds, outcome \in ProcessOutcomes :
        /\ apiCall.n < MaxCalls
        /\ apiCall' = [n |-> apiCall.n + 1, op |-> "build", chatId |-> chatId, gameFiles |-> NoGameFiles,
                       title |-> "", outcome |-> outcome, payload |-> NoPayload,
                       completion |-> BuildGamePage(PageRoute(chatId), outcome)]
        /\ UNCHANGED <<store, overwrote>>

----------------------------------------------------------------------------
(* utils: file operations on the sandbox *)

\* no such file
Missing == <<"<missing>">>

\* what ReadFile returns for game.zip when it is there
ZipBytes == <<"<zip>">>

SandboxFault == "sandbox fault"

\* ctx.sandbox.ReadFile(path) on a file holding content: it returns the content
\* (null when there is no such file) or it throws
ReadFileOutcomes(content) ==
    {[threw |-> FALSE, message |-> "", value |-> IF content = Missing THEN Null ELSE content],
     [threw |-> TRUE, message |-> SandboxFault, value |-> Null]}

\* ctx.sandbox.Exec(argv): the command runs, or the call throws
ExecOutcomes ==
    {[threw |-> FALSE, message |-> ""], [threw |-> TRUE, message |-> SandboxFault]}

\* mutant: fileExists without its catch block
FileExistsNoCatch(outcome) ==
    IF outcome.threw THEN [threw |-> TRUE, message |-> outcome.message, value |-> FALSE]
    ELSE [threw |-> FALSE, message |-> "", value |-> outcome.value /= Null]

\* fileExists; outcome is how its ReadFile call completes
FileExists(outcome) ==
    IF outcome.threw THEN [threw |-> FALSE, message |-> "", value |-> FALSE]
    ELSE [threw |-> FALSE, message |-> "", value |-> outcome.value /= Null]

\* mutant: safeReadFile without its `|| ""`
SafeReadFileNoDefault(outcome) == IF outcome.threw THEN <<>> ELSE outcome.value

\* safeReadFile; outcome is how its ReadFile call completes
SafeReadFile(outcome) ==
    IF outcome.threw THEN <<>>
    ELSE IF Falsy(outcome.value) THEN <<>>
    ELSE outcome.value

\* the catch block of readFromZip: the value readFromZip then returns
ReadFromZipCatch(outcome) == [threw |-> FALSE, message |-> "", value |-> Null]

\* the catch block of readIndividualFiles
ReadIndividualFilesCatch(outcome) == [threw |-> FALSE, message |-> "", value |-> Null]

\* (ctx.locale || "en-us").toLowerCase().startsWith("zh")
IsChinese(locale) ==
    LET l == IF locale = "" THEN "en-us" ELSE locale
    IN  \E z \in {"zh", "ZH", "Zh", "zH"} : HasPrefix(l, z)

----------------------------------------------------------------------------
(* index: the Create and Next hooks *)

Procs == {1, 2}

NoArchive == [present |-> FALSE, html |-> Missing, css |-> Missing, js |-> Missing]
Archive(h, c, j) == [present |-> TRUE, html |-> h, css |-> c, js |-> j]
NoDir == [exists |-> FALSE, html |-> Missing, css |-> Missing, js |-> Missing]

\* what the hook returns: null, { data: ... }, or a fault that escapes it
RetNone == [kind |-> "none", status |-> "", message |-> "", chat_id |-> "",
            game_url |-> "", duration_ms |-> ""]
RetNull == [RetNone EXCEPT !.kind = "null"]
RetError(m) == [RetNone EXCEPT !.kind = "data", !.status = "error", !.message = m]
RetSuccess(chatId, url, duration) ==
    [RetNone EXCEPT !.kind = "data", !.status = "success", !.chat_id = chatId,
                    !.game_url = url, !.duration_ms = duration]
RetThrown(m) == [RetNone EXCEPT !.kind = "thrown", !.message = m]

\* Date.now() is opaque: the time of the call
Timestamp == "<now>"
StartTime == "<start>"

\* `${pageResult.url}?t=${timestamp}`
UrlWithTimestamp(url) == url \o "?t=" \o Timestamp

\* a call of Process(name, "web", "default", route, ...)
ProcessEvent(name, route) == [ev |-> "process", kind |-> name, detail |-> route, zh |-> FALSE]

\* ctx.Send(...): kind is the message (or "navigate" for the action), detail the
\* error or URL it carries, zh its language
SendEvent(kind, detail, zh) == [ev |-> "send", kind |-> kind, detail |-> detail, zh |-> zh]

NoPageResult == [success |-> FALSE, route |-> "", url |-> "", error |-> ""]
NoBuildResult == [success |-> FALSE, error |-> ""]

\* the locals of one invocation of Next:
\*   zh                 isZh
\*   files              readGameFiles' files: "unset", "null" or "bundle"
\*   html, css, js      the texts read so far
\*   gameFiles          how readGameFiles(ctx) completed: "unset", "null", "bundle", "thrown"
\*   pageResult, buildResult   what createGamePage and buildGamePage returned
\*   calls              the sandbox calls made so far, by call site
\*   faults             the sandbox calls that threw
\*   saveFault, buildFault     the message Process threw with, "" when it did not
\*   events             the Process calls and the ctx.Send calls made, in order
\*   ret                what Next returned
NoLocals == [zh |-> FALSE, files |-> "unset", html |-> Null, css |-> Null, js |-> Null,
             gameFiles |-> "unset", pageResult |-> NoPageResult,
             buildResult |-> NoBuildResult, calls |-> {}, faults |-> {}, saveFault |-> "",
             buildFault |-> "", events |-> <<>>, ret |-> RetNone]

Continue(p, label, l) ==
    /\ pc' = [pc EXCEPT ![p] = label]
    /\ loc' = [loc EXCEPT ![p] = l]

\* Next returns r
Return(p, l, r) == Continue(p, "done", [l EXCEPT !.ret = r])

\* a fault that no try block catches leaves Next
Escape(p, l, m) == Continue(p, "done", [l EXCEPT !.ret = RetThrown(m)])

\* the locals with the sandbox call at site, and its fault, noted
Noted(l, site, outcome) ==
    IF outcome.threw THEN [l EXCEPT !.calls = @ \cup {site}, !.faults = @ \cup {site}]
    ELSE [l EXCEPT !.calls = @ \cup {site}]

\* Create(ctx, messages)
Create(p) ==
    /\ pc[p] = "idle"
    /\ memory' = [chat_id |-> ctx.chat_id, start_time |-> StartTime]
    /\ Continue(p, "sandbox", NoLocals)
    /\ UNCHANGED <<ws, dir, ctx, store>>

\* Next(ctx, payload) up to its first sandbox call
StartNext(p) ==
    /\ pc[p] = "next"
    /\ \E error \in {"", "execution failed"} :
        LET l == [NoLocals EXCEPT !.zh = IsChinese(ctx.locale)]
        IN  IF error /= "" THEN Return(p, l, RetError(error))
            ELSE IF ~ctx.sandbox THEN Return(p, l, RetNull)
            ELSE Continue(p, "probeZip", l)
    /\ UNCHANGED <<ws, dir, ctx, memory, store>>

\* readGameFiles: fileExists(ctx, "game.zip")
ProbeZip(p) ==
    /\ pc[p] = "probeZip"
    /\ \E o \in ReadFileOutcomes(IF ws.zip.present THEN ZipBytes ELSE Missing) :
        LET found == FileExists(o)
            l == Noted(loc[p], "probeZip", o)
        IN  IF found.threw THEN Escape(p, [l EXCEPT !.gameFiles = "thrown"], found.message)
            ELSE Continue(p, IF found.value THEN "mkdir" ELSE "probeHtml", l)
    /\ UNCHANGED <<ws, dir, ctx, memory, store>>

\* a call of readFromZip threw: its catch block returns null, and readGameFiles
\* goes on to the individual files
ZipFailed(p, l, o) ==
    LET caught == ReadFromZipCatch(o)
    IN  IF caught.threw THEN Escape(p, [l EXCEPT !.gameFiles = "thrown"], caught.message)
        ELSE Continue(p, "probeHtml", [l EXCEPT !.files = "null"])

\* readFromZip: Exec(["mkdir", "-p", extractDir])
Mkdir(p) ==
    /\ pc[p] = "mkdir"
    /\ \E o \in ExecOutcomes :
        LET l == Noted(loc[p], "mkdir", o)
        IN  IF o.threw THEN ZipFailed(p, l, o) /\ UNCHANGED dir
            ELSE /\ dir' = [dir EXCEPT !.exists = TRUE]
                 /\ Continue(p, "unzip", l)
    /\ UNCHANGED <<ws, ctx, memory, store>>

\* what unzip -o leaves of one file: the archive's member, else what was there
Extracted(member, old) == IF member /= Missing THEN member ELSE old

\* readFromZip: Exec(["unzip", "-o", "game.zip", "-d", extractDir])
Unzip(p) ==
    /\ pc[p] = "unzip"
    /\ \E o \in ExecOutcomes :
        LET l == Noted(loc[p], "unzip", o)
        IN  IF o.threw THEN ZipFailed(p, l, o) /\ UNCHANGED dir
            ELSE /\ dir' = IF ws.zip.present
                           THEN [exists |-> TRUE,
                                 html |-> Extracted(ws.zip.html, dir.html),
                                 css |-> Extracted(ws.zip.css, dir.css),
                                 js |-> Extracted(ws.zip.js, dir.js)]
                           ELSE dir
                 /\ Continue(p, "ls", l)
    /\ UNCHANGED <<ws, ctx, memory, store>>

\* readFromZip: Exec(["ls", "-la", extractDir])
Ls(p) ==
    /\ pc[p] = "ls"
    /\ \E o \in ExecOutcomes :
        LET l == Noted(loc[p], "ls", o)
        IN  IF o.threw THEN ZipFailed(p, l, o)
            ELSE Continue(p, "readZipHtml", l)
    /\ UNCHANGED <<ws, dir, ctx, memory, store>>

\* readFromZip: html = ReadFile(`${extractDir}/game.html`)
ReadZipHtml(p) ==
    /\ pc[p] = "readZipHtml"
    /\ \E o \in ReadFileOutcomes(dir.html) :
        LET l == Noted(loc[p], "readZipHtml", o)
        IN  IF o.threw THEN ZipFailed(p, l, o)
            ELSE Continue(p, "readZipCss", [l EXCEPT !.html = o.value])
    /\ UNCHANGED <<ws, dir, ctx, memory, store>>

\* readFromZip: css = safeReadFile(ctx, `${extractDir}/game.css`)
ReadZipCss(p) ==
    /\ pc[p] = "readZipCss"
    /\ \E o \in ReadFileOutcomes(dir.css) :
        Continue(p, "readZipJs",
                 [Noted(loc[p], "readZipCss", o) EXCEPT !.css = SafeReadFile(o)])
    /\ UNCHANGED <<ws, dir, ctx, memory, store>>

\* readFromZip: js = safeReadFile(ctx, `${extractDir}/game.js`)
ReadZipJs(p) ==
    /\ pc[p] = "readZipJs"
    /\ \E o \in ReadFileOutcomes(dir.js) :
        Continue(p, "rm",
                 [Noted(loc[p], "readZipJs", o) EXCEPT !.js = SafeReadFile(o)])
    /\ UNCHANGED <<ws, dir, ctx, memory, store>>

\* readFromZip: Exec(["rm", "-rf", extractDir]); return { html, css, js }, which
\* readGameFiles returns in its turn
Rm(p) ==
    /\ pc[p] = "rm"
    /\ \E o \in ExecOutcomes :
        LET l == Noted(loc[p], "rm", o)
        IN  IF o.threw THEN ZipFailed(p, l, o) /\ UNCHANGED dir
            ELSE /\ dir' = NoDir
                 /\ Continue(p, "create",
                             [l EXCEPT !.files = "bundle", !.gameFiles = "bundle"])
    /\ UNCHANGED <<ws, ctx, memory, store>>

\* mutant: Next without its `if (!gameFiles) return null`
NoGameFilesFoundGoesOn(p, l) == Continue(p, "create", [l EXCEPT !.gameFiles = "null"])

\* readGameFiles returns null, and then so does Next
NoGameFilesFound(p, l) == Return(p, [l EXCEPT !.gameFiles = "null"], RetNull)

\* readGameFiles: fileExists(ctx, "game.html")
ProbeHtml(p) ==
    /\ pc[p] = "probeHtml"
    /\ \E o \in ReadFileOutcomes(ws.html) :
        LET found == FileExists(o)
            l == Noted(loc[p], "probeHtml", o)
        IN  IF found.threw THEN Escape(p, [l EXCEPT !.gameFiles = "thrown"], found.message)
            ELSE IF found.value THEN Continue(p, "readHtml", l)
            ELSE NoGameFilesFound(p, l)
    /\ UNCHANGED <<ws, dir, ctx, memory, store>>

\* a call of readIndividualFiles threw: its catch block returns null
IndividualFailed(p, l, o) ==
    LET caught == ReadIndividualFilesCatch(o)
    IN  IF caught.threw THEN Escape(p, [l EXCEPT !.gameFiles = "thrown"], caught.message)
        ELSE NoGameFilesFound(p, l)

\* readIndividualFiles: html = ReadFile("game.html"); if (!html) return null
ReadHtml(p) ==
    /\ pc[p] = "readHtml"
    /\ \E o \in ReadFileOutcomes(ws.html) :
        LET l == Noted(loc[p], "readHtml", o)
        IN  IF o.threw THEN IndividualFailed(p, l, o)
            ELSE IF Falsy(o.value) THEN NoGameFilesFound(p, l)
            ELSE Continue(p, "readCss", [l EXCEPT !.html = o.value])
    /\ UNCHANGED <<ws, dir, ctx, memory, store>>

\* readIndividualFiles: css = safeReadFile(ctx, "game.css")
ReadCss(p) ==
    /\ pc[p] = "readCss"
    /\ \E o \in ReadFileOutcomes(ws.css) :
        Continue(p, "readJs", [Noted(loc[p], "readCss", o) EXCEPT !.css = SafeReadFile(o)])
    /\ UNCHANGED <<ws, dir, ctx, memory, store>>

\* readIndividualFiles: js = safeReadFile(ctx, "game.js"); return { html, css, js }
ReadJs(p) ==
    /\ pc[p] = "readJs"
    /\ \E o \in ReadFileOutcomes(ws.js) :
        Continue(p, "create",
                 [Noted(loc[p], "readJs", o) EXCEPT !.js = SafeReadFile(o),
                                                    !.gameFiles = "bundle"])
    /\ UNCHANGED <<ws, dir, ctx, memory, store>>

\* ctx.memory.context.Get("chat_id") || ctx.chat_id
ChatIdOf(mem, c) == IF mem.chat_id /= "" THEN mem.chat_id ELSE c.chat_id

\* mutant: the hook goes on to the build whatever createGamePage returned
ProceedsToBuildAlways(pageResult) == TRUE

\* Next: if (!pageResult.success) { ctx.Send(...); return error } else go on
ProceedsToBuild(pageResult) == pageResult.success

\* Next: the chat_id, createGamePage(chatId, gameFiles) and the handling of its failure
CreatePage(p) ==
    /\ pc[p] = "create"
    /\ LET chatId == ChatIdOf(memory, ctx)
           gameFiles == [html |-> loc[p].html, css |-> loc[p].css, js |-> loc[p].js]
       IN  IF chatId = ""
           THEN Return(p, loc[p], RetError("chat_id not available")) /\ UNCHANGED store
           ELSE \E o \in ProcessOutcomes :
                LET done == CreateGamePage(chatId, gameFiles, "", o)
                    pageResult == done.value
                    saved == ReachesSave(gameFiles)
                    l == [loc[p] EXCEPT
                            !.events = @ \o (IF saved
                                THEN <<ProcessEvent("sui.page.save", PageRoute(chatId))>>
                                ELSE <<>>),
                            !.saveFault = IF saved THEN o.message ELSE ""]
                IN  /\ store' = StoreAfterCreate(store, chatId, gameFiles, "", o)
                    /\ IF done.threw THEN Escape(p, l, done.message)
                       ELSE IF ProceedsToBuild(pageResult)
                       THEN Continue(p, "build", [l EXCEPT !.pageResult = pageResult])
                       ELSE Return(p,
                                [l EXCEPT !.pageResult = pageResult,
                                          !.events = Append(@,
                                    SendEvent("create_failed", pageResult.error, l.zh))],
                                RetError(pageResult.error))
    /\ UNCHANGED <<ws, dir, ctx, memory>>

\* mutant: nothing more is sent once the build has failed
SendsAfterBuildOnlyWarning(buildResult, url, zh) ==
    IF ~buildResult.success
    THEN <<SendEvent("build_failed", buildResult.error, zh)>>
    ELSE <<SendEvent("navigate", UrlWithTimestamp(url), zh),
           SendEvent("game_ready", UrlWithTimestamp(url), zh)>>

\* what Next sends after buildGamePage: the warning if the build failed, then the
\* navigate action and the link
SendsAfterBuild(buildResult, url, zh) ==
    (IF ~buildResult.success
     THEN <<SendEvent("build_failed", buildResult.error, zh)>> ELSE <<>>)
    \o <<SendEvent("navigate", UrlWithTimestamp(url), zh),
         SendEvent("game_ready", UrlWithTimestamp(url), zh)>>

\* Next: buildGamePage(pageResult.route) and the rest of the hook
BuildPage(p) ==
    /\ pc[p] = "build"
    /\ \E o \in ProcessOutcomes :
        LET pageResult == loc[p].pageResult
            done == BuildGamePage(pageResult.route, o)
            duration == IF memory.start_time /= "" THEN "<now - start>" ELSE "0"
            l == [loc[p] EXCEPT
                    !.events = Append(@, ProcessEvent("sui.build.page", pageResult.route)),
                    !.buildFault = o.message]
        IN  IF done.threw THEN Escape(p, l, done.message)
            ELSE Return(p,
                    [l EXCEPT !.buildResult = done.value,
                              !.events = @ \o SendsAfterBuild(done.value, pageResult.url, l.zh)],
                    RetSuccess(ChatIdOf(memory, ctx), pageResult.url, duration))
    /\ UNCHANGED <<ws, dir, ctx, memory, store>>

----------------------------------------------------------------------------
(* The sandbox run between the hooks: the CLI writes the game files *)

WsHtmls == {Missing, <<>>, FragmentDoc}
WsCss == {Missing, <<"css2">>}
WsJs == {Missing, <<"x">>}
Archives ==
    {Archive(SingleFileDoc, <<"css3">>, WrappedJs),
     Archive(SingleFileDoc, Missing, Missing),
     Archive(Missing, <<"css3">>, Missing)}
Workspaces == [zip : Archives \cup {NoArchive}, html : WsHtmls, css : WsCss, js : WsJs]

EmptyWorkspace == [zip |-> NoArchive, html |-> Missing, css |-> Missing, js |-> Missing]

Contexts ==
    {[chat_id |-> "c1", locale |-> "en-us", sandbox |-> TRUE],
     [chat_id |-> "c2", locale |-> "zh-CN", sandbox |-> TRUE],
     [chat_id |-> "", locale |-> "", sandbox |-> TRUE],
     [chat_id |-> "c1", locale |-> "", sandbox |-> FALSE]}

NoMemory == [chat_id |-> "", start_time |-> ""]

\* the invocation is over: its locals are gone
EndNext(p) ==
    /\ pc[p] = "done"
    /\ Continue(p, "idle", NoLocals)
    /\ UNCHANGED <<ws, dir, ctx, memory, store>>

\* the sandbox executes the CLI, which leaves some game files in the workspace
SandboxRun(p) ==
    /\ pc[p] \in {"idle", "sandbox"}
    /\ \A q \in Procs : pc[q] \in {"idle", "sandbox"}
    /\ ws' \in Workspaces
    /\ Continue(p, "next", NoLocals)
    /\ UNCHANGED <<dir, ctx, memory, store>>

HookIdle ==
    /\ ws = EmptyWorkspace
    /\ dir = NoDir
    /\ ctx = [chat_id |-> "", locale |-> "", sandbox |-> FALSE]
    /\ memory = NoMemory
    /\ pc = [p \in Procs |-> "idle"]
    /\ loc = [p \in Procs |-> NoLocals]

HookInit ==
    /\ ws = EmptyWorkspace
    /\ dir = NoDir
    /\ ctx \in Contexts
    /\ memory = NoMemory
    /\ pc = [p \in Procs |-> "idle"]
    /\ loc = [p \in Procs |-> NoLocals]

----------------------------------------------------------------------------
(* SpecJs: the script wrapper applied to every script text up to MaxJsLen *)

JsTexts == SeqsUpTo(JsTokens, MaxJsLen)

JsIdle ==
    /\ js = <<>>
    /\ jsPc = "off"
    /\ jsOut = <<>>
    /\ jsOut2 = <<>>
    /\ jsFlag = FALSE

JsInit ==
    /\ js \in JsTexts
    /\ jsPc = "input"
    /\ jsOut = <<>>
    /\ jsOut2 = <<>>
    /\ jsFlag = FALSE

\* isAlreadyWrapped(js)
CallIsAlreadyWrapped ==
    /\ jsPc = "input"
    /\ jsPc' = "checked"
    /\ jsFlag' = IsAlreadyWrapped(js)
    /\ UNCHANGED <<js, jsOut, jsOut2>>

\* out = wrapJsForSui(js)
CallWrapJsForSui ==
    /\ jsPc = "checked"
    /\ jsPc' = "wrapped"
    /\ jsOut' = WrapJsForSui(js)
    /\ UNCHANGED <<js, jsOut2, jsFlag>>

\* out = wrapJsForSui(out)
CallWrapJsForSuiAgain ==
    /\ jsPc = "wrapped"
    /\ jsPc' = "rewrapped"
    /\ jsOut2' = WrapJsForSui(jsOut)
    /\ UNCHANGED <<js, jsOut, jsFlag>>

----------------------------------------------------------------------------
(* SpecDoc: the content extraction applied to every document of up to MaxPieces pieces *)

FontLinkB == "<link rel='stylesheet' href='https://fonts.googleapis.com/css?family=B'>"

\* a stylesheet on another host
OtherLink == "<link rel='stylesheet' href='https://cdn.example/site.css'>"

\* a stylesheet on another host whose path names the font provider
MirrorLink == "<link rel='stylesheet' href='https://cdn.example/fonts.googleapis.com/a.css'>"

StyleA == <<"<style>", "a", "</style>">>
StyleB == <<"<style>", "b", "</style>">>
ScriptX == <<"<script>", "x", "</script>">>

\* a script block that only references an external file
ExternalScript == <<"<script src='external.js'>", "</script>">>

\* the pieces documents are put together from: whole blocks, single tags, text
BlockPieces ==
    {StyleA, StyleB, ScriptX, ExternalScript, <<"<script>">>, <<"</style>">>,
     <<"<body>">>, <<"</body>">>, <<"div1">>, <<SP>>}
HeadPieces ==
    {<<"<head>">>, <<"</head>">>, <<FontLinkA>>, <<FontLinkB>>, <<OtherLink>>,
     <<MirrorLink>>, <<"div1">>}

\* the concatenations of up to n pieces
RECURSIVE Concats(_, _)
Concats(P, n) ==
    IF n = 0 THEN {<<>>}
    ELSE LET shorter == Concats(P, n - 1)
         IN  shorter \cup {d \o piece : d \in shorter, piece \in P}

DocTexts == Concats(BlockPieces, MaxPieces) \cup Concats(HeadPieces, MaxPieces)

NoDocOut == [body |-> <<>>, css |-> <<>>, js |-> <<>>, fonts |-> <<>>]

DocIdle ==
    /\ doc = <<>>
    /\ docPc = "off"
    /\ docOut = NoDocOut

DocInit ==
    /\ doc \in DocTexts
    /\ docPc = "input"
    /\ docOut = NoDocOut

\* extractBodyContent(doc)
CallExtractBodyContent ==
    /\ docPc = "input"
    /\ docPc' = "body"
    /\ docOut' = [NoDocOut EXCEPT !.body = ExtractBodyContent(doc)]
    /\ UNCHANGED doc

\* extractFromSingleFile(doc)
CallExtractFromSingleFile ==
    /\ docPc = "input"
    /\ docPc' = "single"
    /\ docOut' = [NoDocOut EXCEPT !.css = ExtractFromSingleFile(doc).css,
                                  !.js = ExtractFromSingleFile(doc).js]
    /\ UNCHANGED doc

\* extractFontImports(doc)
CallExtractFontImports ==
    /\ docPc = "input"
    /\ docPc' = "fonts"
    /\ docOut' = [NoDocOut EXCEPT !.fonts = ExtractFontImports(doc)]
    /\ UNCHANGED doc

----------------------------------------------------------------------------
(* Specifications *)

\* the content extraction on every document
InitDoc == DocInit /\ JsIdle /\ PageIdle /\ HookIdle
NextDoc ==
    \/ CallExtractBodyContent /\ UNCHANGED <<jsVars, store, pageVars, hookVars>>
    \/ CallExtractFromSingleFile /\ UNCHANGED <<jsVars, store, pageVars, hookVars>>
    \/ CallExtractFontImports /\ UNCHANGED <<jsVars, store, pageVars, hookVars>>
SpecDoc == InitDoc /\ [][NextDoc]_vars

\* the script wrapper on every script text
InitJs == JsInit /\ DocIdle /\ PageIdle /\ HookIdle
NextJs ==
    \/ CallIsAlreadyWrapped /\ UNCHANGED <<docVars, store, pageVars, hookVars>>
    \/ CallWrapJsForSui /\ UNCHANGED <<docVars, store, pageVars, hookVars>>
    \/ CallWrapJsForSuiAgain /\ UNCHANGED <<docVars, store, pageVars, hookVars>>
SpecJs == InitJs /\ [][NextJs]_vars

\* createGamePage and buildGamePage called directly, over and over
InitPage == PageInit /\ JsIdle /\ DocIdle /\ HookIdle
NextPage ==
    \/ CallCreateGamePage /\ UNCHANGED <<jsVars, docVars, hookVars>>
    \/ CallBuildGamePage /\ UNCHANGED <<jsVars, docVars, hookVars>>
SpecPage == InitPage /\ [][NextPage]_vars

\* one conversation: turn after turn, the sandbox run and then the hooks, one
\* invocation at a time
Init == HookInit /\ PageIdle /\ JsIdle /\ DocIdle
Next ==
    \/ Create(1) /\ UNCHANGED <<jsVars, docVars, pageVars>>
    \/ SandboxRun(1) /\ UNCHANGED <<jsVars, docVars, pageVars>>
    \/ StartNext(1) /\ UNCHANGED <<jsVars, docVars, pageVars>>
    \/ ProbeZip(1) /\ UNCHANGED <<jsVars, docVars, pageVars>>
    \/ Mkdir(1) /\ UNCHANGED <<jsVars, docVars, pageVars>>
    \/ Unzip(1) /\ UNCHANGED <<jsVars, docVars, pageVars>>
    \/ Ls(1) /\ UNCHANGED <<jsVars, docVars, pageVars>>
    \/ ReadZipHtml(1) /\ UNCHANGED <<jsVars, docVars, pageVars>>
    \/ ReadZipCss(1) /\ UNCHANGED <<jsVars, docVars, pageVars>>
    \/ ReadZipJs(1) /\ UNCHANGED <<jsVars, docVars, pageVars>>
    \/ Rm(1) /\ UNCHANGED <<jsVars, docVars, pageVars>>
    \/ ProbeHtml(1) /\ UNCHANGED <<jsVars, docVars, pageVars>>
    \/ ReadHtml(1) /\ UNCHANGED <<jsVars, docVars, pageVars>>
    \/ ReadCss(1) /\ UNCHANGED <<jsVars, docVars, pageVars>>
    \/ ReadJs(1) /\ UNCHANGED <<jsVars, docVars, pageVars>>
    \/ CreatePage(1) /\ UNCHANGED <<jsVars, docVars, pageVars>>
    \/ BuildPage(1) /\ UNCHANGED <<jsVars, docVars, pageVars>>
    \/ EndNext(1) /\ UNCHANGED <<jsVars, docVars, pageVars>>
Spec == Init /\ [][Next]_vars

\* two invocations of Next on one workspace, each up to the return of its
\* readGameFiles call, their sandbox calls interleaved in any order
ConcWorkspaces == [zip : Archives, html : {Missing, FragmentDoc}, css : {Missing}, js : {Missing}]
InitConc ==
    /\ ws \in ConcWorkspaces
    /\ dir = NoDir
    /\ ctx = [chat_id |-> "c1", locale |-> "en-us", sandbox |-> TRUE]
    /\ memory = [chat_id |-> "c1", start_time |-> StartTime]
    /\ pc = [p \in Procs |-> "next"]
    /\ loc = [p \in Procs |-> NoLocals]
    /\ PageIdle /\ JsIdle /\ DocIdle
NextConc ==
    \/ (\E p \in Procs : StartNext(p)) /\ UNCHANGED <<jsVars, docVars, pageVars>>
    \/ (\E p \in Procs : ProbeZip(p)) /\ UNCHANGED <<jsVars, docVars, pageVars>>
    \/ (\E p \in Procs : Mkdir(p)) /\ UNCHANGED <<jsVars, docVars, pageVars>>
    \/ (\E p \in Procs : Unzip(p)) /\ UNCHANGED <<jsVars, docVars, pageVars>>
    \/ (\E p \in Procs : Ls(p)) /\ UNCHANGED <<jsVars, docVars, pageVars>>
    \/ (\E p \in Procs : ReadZipHtml(p)) /\ UNCHANGED <<jsVars, docVars, pageVars>>
    \/ (\E p \in Procs : ReadZipCss(p)) /\ UNCHANGED <<jsVars, docVars, pageVars>>
    \/ (\E p \in Procs : ReadZipJs(p)) /\ UNCHANGED <<jsVars, docVars, pageVars>>
    \/ (\E p \in Procs : Rm(p)) /\ UNCHANGED <<jsVars, docVars, pageVars>>
    \/ (\E p \in Procs : ProbeHtml(p)) /\ UNCHANGED <<jsVars, docVars, pageVars>>
    \/ (\E p \in Procs : ReadHtml(p)) /\ UNCHANGED <<jsVars, docVars, pageVars>>
    \/ (\E p \in Procs : ReadCss(p)) /\ UNCHANGED <<jsVars, docVars, pageVars>>
    \/ (\E p \in Procs : ReadJs(p)) /\ UNCHANGED <<jsVars, docVars, pageVars>>
SpecConc == InitConc /\ [][NextConc]_vars

----------------------------------------------------------------------------
(* Claims about the Next hook and readGameFiles (Spec) *)

\* the ctx.Send calls among the events, in order
Sends(events) == LET IsSend(e) == e.ev = "send" IN SelectSeq(events, IsSend)

\* C1: once readFromZip has returned, by whatever path (normally, or through its
\* catch block because mkdir, unzip, ls or a read threw), the scratch directory
\* game_extracted it created does not exist any more.
C1_ScratchDirRemoved ==
    \A p \in Procs :
        (loc[p].files \in {"null", "bundle"} /\ "mkdir" \notin loc[p].faults)
            => ~dir.exists

\* C2: readGameFiles never lets a fault escape: whatever sandbox ReadFile and Exec
\* calls throw, it returns a bundle or null, and once mkdir, unzip or ls has thrown,
\* readFromZip has returned null.
C2_ReadGameFilesNeverThrows ==
    \A p \in Procs :
        /\ loc[p].gameFiles /= "thrown"
        /\ (pc[p] = "done" /\ loc[p].faults /= {})
               => (loc[p].gameFiles \in {"null", "bundle"} /\ loc[p].ret.kind /= "thrown")
        /\ (loc[p].faults \cap {"mkdir", "unzip", "ls"} /= {}) => loc[p].files = "null"

\* C2 witness: the unzip command and the read of game.css both threw, and
\* readGameFiles still returned a bundle
C2_FaultsSurvived ==
    \E p \in Procs :
        /\ pc[p] = "done"
        /\ {"unzip", "readCss"} \subseteq loc[p].faults
        /\ loc[p].files = "null"
        /\ loc[p].gameFiles = "bundle"

\* readGameFiles found neither game.zip nor game.html readable
NeitherReadable(p) ==
    /\ ~ws.zip.present \/ "probeZip" \in loc[p].faults
    /\ ws.html = Missing \/ "probeHtml" \in loc[p].faults

\* C3: when the workspace holds neither a readable game.zip nor a readable
\* game.html, readGameFiles returns null and Next returns null (neither the success
\* nor the error result) without a call of sui.page.save, sui.build.page or ctx.Send.
C3_NoFilesIsQuietNoOp ==
    \A p \in Procs :
        (pc[p] = "done" /\ loc[p].gameFiles /= "unset" /\ NeitherReadable(p))
            => /\ loc[p].gameFiles = "null"
               /\ loc[p].ret = RetNull
               /\ loc[p].ret.kind /= "data"
               /\ loc[p].events = <<>>

\* C3 witness: Next has ended on a workspace with a stylesheet and a script but
\* neither game.zip nor game.html
C3_NoFilesSeen ==
    \E p \in Procs :
        /\ pc[p] = "done"
        /\ loc[p].gameFiles = "null"
        /\ ~ws.zip.present /\ ws.html = Missing /\ ws.css /= Missing
        /\ loc[p].ret = RetNull

\* C6: when createGamePage succeeded and buildGamePage failed, Next has sent the
\* build warning first, then the navigate action and the link for the saved page's
\* URL, and has returned status "success" with game_url set; buildGamePage did not
\* throw and returned success=false with the collaborator's message.
C6_BuildFailureStillNavigates ==
    \A p \in Procs :
        (pc[p] = "done" /\ loc[p].pageResult.success /\ loc[p].buildFault /= "")
            => LET l == loc[p]
                   url == "/ai/" \o ChatIdOf(memory, ctx)
               IN  /\ l.buildResult = [success |-> FALSE, error |-> l.buildFault]
                   /\ Sends(l.events) =
                        <<SendEvent("build_failed", l.buildFault, l.zh),
                          SendEvent("navigate", url \o "?t=" \o Timestamp, l.zh),
                          SendEvent("game_ready", url \o "?t=" \o Timestamp, l.zh)>>
                   /\ l.ret.kind = "data"
                   /\ l.ret.status = "success"
                   /\ l.ret.game_url = url

\* C6 witness: a page was saved, its build threw "disk full", and Next returned success
C6_BuildFailedSeen ==
    \E p \in Procs :
        /\ pc[p] = "done"
        /\ loc[p].pageResult.success
        /\ loc[p].buildFault = "disk full"
        /\ loc[p].ret.status = "success"

\* C7: when createGamePage returned success=false, Next has sent exactly one
\* message, carrying the error, has not called buildGamePage, has sent neither a
\* navigate action nor a page URL, and has returned status "error" with that error.
C7_CreateFailureStopsHook ==
    \A p \in Procs :
        (pc[p] = "done" /\ loc[p].pageResult.route /= "" /\ ~loc[p].pageResult.success)
            => LET l == loc[p]
               IN  /\ Sends(l.events) = <<SendEvent("create_failed", l.pageResult.error, l.zh)>>
                   /\ \A i \in 1..Len(l.events) :
                        /\ l.events[i].kind \notin {"sui.build.page", "navigate", "game_ready"}
                        /\ l.events[i].detail /= UrlWithTimestamp(l.pageResult.url)
                   /\ l.saveFault /= "" => l.pageResult.error = l.saveFault
                   /\ l.ret = RetError(l.pageResult.error)

\* C7 witness: sui.page.save threw "route locked" and Next returned the error
C7_CreateFailedSeen ==
    \E p \in Procs :
        /\ pc[p] = "done"
        /\ loc[p].saveFault = "route locked"
        /\ ~loc[p].pageResult.success
        /\ loc[p].ret.status = "error"

----------------------------------------------------------------------------
(* Claims about createGamePage (SpecPage) *)

\* the last call was a createGamePage that returned success
CreateSucceeded ==
    /\ apiCall.op = "create"
    /\ ~apiCall.completion.threw
    /\ apiCall.completion.value.success

\* C4: after a successful createGamePage, also one that follows an earlier
\* successful call with the same chatId, the page stored at /ai/{chatId} (markup,
\* style, script, title) is what this call alone produces on an empty storage: the
\* payload carries all four kinds with all four needToSave flags true, and nothing
\* of the earlier source remains.
C4_SecondSaveOverwrites ==
    CreateSucceeded =>
        LET route == "/ai/" \o apiCall.chatId
            source == PageSource(apiCall.chatId, apiCall.gameFiles, apiCall.title)
        IN  /\ store[route] = SuiPageSave(EmptyStore, route, source)[route]
            /\ store[route] = [page |-> source.page.source, style |-> source.style.source,
                               script |-> source.script.source,
                               title |-> source.setting.title]
            /\ source.needToSave = [page |-> TRUE, style |-> TRUE, script |-> TRUE,
                                    setting |-> TRUE]

\* C4 witness: the second of two successful calls has replaced a different page
C4_OverwroteSeen ==
    /\ CreateSucceeded
    /\ apiCall.n = 2
    /\ overwrote
    /\ store["/ai/" \o apiCall.chatId].style = <<>>

\* C5: createGamePage never throws: when sui.page.save, or a normalisation step
\* before it, throws with message m, it returns success=false with error = m, and
\* whether it succeeds or fails its route and url are "/ai/" + chatId.
C5_CreateGamePageNeverThrows ==
    apiCall.op = "create" =>
        LET result == apiCall.completion.value
        IN  /\ ~apiCall.completion.threw
            /\ result.route = "/ai/" \o apiCall.chatId
            /\ result.url = "/ai/" \o apiCall.chatId
            /\ apiCall.gameFiles.html = Null
                 => (~result.success /\ result.error = NullMatchMessage)
            /\ (apiCall.gameFiles.html /= Null /\ apiCall.outcome.threw)
                 => (~result.success /\ result.error = apiCall.outcome.message)
            /\ (apiCall.gameFiles.html /= Null /\ ~apiCall.outcome.threw)
                 => result.success

\* C5 witness: sui.page.save threw "disk full" and createGamePage returned the failure
C5_SaveFaultSeen ==
    /\ apiCall.op = "create"
    /\ apiCall.gameFiles.html /= Null
    /\ apiCall.outcome.threw
    /\ apiCall.outcome.message = "disk full"
    /\ ~apiCall.completion.value.success

----------------------------------------------------------------------------
(* Claims about the script wrapper (SpecJs) *)

\* C8: wrapJsForSui is idempotent, wrapJsForSui(wrapJsForSui(x)) = wrapJsForSui(x)
\* for every script text x, and it returns its input unchanged whenever
\* isAlreadyWrapped(input) is true.
C8_WrapIdempotent ==
    /\ jsPc = "rewrapped" => jsOut2 = jsOut
    /\ (jsPc \in {"wrapped", "rewrapped"} /\ jsFlag) => jsOut = js

\* C8 witness: a text that was not in deferred form has been wrapped, and wrapping
\* the result again left it as it was
C8_WrappedOnceSeen ==
    /\ jsPc = "rewrapped"
    /\ ~jsFlag
    /\ DefInit \in {js[i] : i \in 1..Len(js)}
    /\ jsOut = InitWrapper(js)
    /\ jsOut2 = jsOut

\* the text outside its line comments (a comment runs from // to the line break)
RECURSIVE StripComments(_)
StripComments(t) ==
    IF t = <<>> THEN <<>>
    ELSE IF Head(t) = "//"
         THEN LET nl == NextNewline(t, 1)
              IN  IF nl = 0 THEN <<>> ELSE StripComments(SubSeq(t, nl, Len(t)))
    ELSE <<Head(t)>> \o StripComments(Tail(t))

Lexemes(t) == {t[i] : i \in 1..Len(t)}

\* the text is a definition of function f, then anything, then a call of f
IsDefThenCall(t, def, call) ==
    LET u == Trim(t)
        v == IF u /= <<>> /\ Last(u) = ";" THEN Front(u) ELSE u
    IN  Len(v) >= 2 /\ Head(v) = def /\ Last(v) = call

\* C9: isAlreadyWrapped is true for a text that is a definition of function init
\* (or main) followed by a call of it, false for a text that defines init but
\* never calls it, and false for a text with no definition of init or main.
C9_IsAlreadyWrappedCases ==
    jsPc /= "input" =>
        /\ (IsDefThenCall(js, DefInit, CallInit) \/ IsDefThenCall(js, DefMain, CallMain))
              => jsFlag
        /\ (DefInit \in Lexemes(StripComments(js))
               /\ CallInit \notin Lexemes(StripComments(js)))
              => ~jsFlag
        /\ (Lexemes(js) \cap DefTokens = {}) => ~jsFlag

\* the first lexeme of the text that is neither white space nor in a comment
\* is the definition of init or main
DefinitionComesFirst(t) ==
    LET code == TrimLeft(StripComments(Trim(t)))
    IN  code /= <<>> /\ Head(code) \in DefTokens

\* C10: isAlreadyWrapped(s) is true only if the definition of init or main stands
\* at the start of the trimmed text, with nothing but comment lines and white
\* space before it: whenever other code precedes the definition, it is false.
C10_DefinitionAtStart ==
    (jsPc /= "input" /\ jsFlag) => DefinitionComesFirst(js)

\* the definition the text starts with, after white space and comment lines
FirstDefinition(t) == Head(TrimLeft(StripComments(Trim(t))))

\* the call the trimmed text ends with, before an optional semicolon
FinalCall(t) ==
    LET a == TrimRight(t)
        b == IF a /= <<>> /\ Last(a) = ";" THEN TrimRight(Front(a)) ELSE a
    IN  Last(b)

\* C11: isAlreadyWrapped(s) is true only if the call at the end of the trimmed text
\* calls the function that is defined at its start: a text that defines init and
\* ends with a call of main, or the reverse, is not in deferred form.
C11_SameFunctionCalled ==
    (jsPc /= "input" /\ jsFlag /\ DefinitionComesFirst(js))
        => (FirstDefinition(js) = DefInit <=> FinalCall(js) = CallInit)

----------------------------------------------------------------------------
(* Claims about the source createGamePage publishes (SpecPage) *)

\* the last call was a createGamePage that handed a source to sui.page.save
ReachedSave == apiCall.op = "create" /\ apiCall.payload /= NoPayload

\* what extractFromSingleFile finds in the markup of the last call
ExtractedOfCall == ExtractFromSingleFile(apiCall.gameFiles.html)

\* the explicit text when there is one, else the extracted text
Preferred(explicit, extracted) ==
    IF explicit = Null \/ explicit = <<>> THEN extracted ELSE explicit

Count(t, tok) == Cardinality({i \in 1..Len(t) : t[i] = tok})

IsSuffixOf(suf, t) == Len(suf) <= Len(t) /\ SubSeq(t, Len(t) - Len(suf) + 1, Len(t)) = suf

\* C12: whenever createGamePage reaches sui.page.save, the script of the payload is
\* in deferred form (isAlreadyWrapped holds of it), also when the explicit and the
\* extracted script are both empty; it is the selected raw script unchanged when that
\* was already in deferred form, and otherwise the raw script inside exactly one
\* init wrapper.
C12_PayloadScriptDeferred ==
    ReachedSave =>
        LET raw == Preferred(apiCall.gameFiles.js, ExtractedOfCall.js)
            script == apiCall.payload.script.source
        IN  /\ IsAlreadyWrapped(script)
            /\ IsAlreadyWrapped(raw) => script = raw
            /\ ~IsAlreadyWrapped(raw) =>
                 /\ script = <<DefInit, NL>> \o raw \o <<NL, "}", NL, NL, CallInit, ";">>
                 /\ Count(script, DefInit) = Count(raw, DefInit) + 1
                 /\ Count(script, CallInit) = Count(raw, CallInit) + 1

\* C12 witness: a fragment without script and an empty game.js were published, and
\* the payload's script is the init wrapper around nothing
C12_EmptyScriptWrapped ==
    /\ ReachedSave
    /\ apiCall.gameFiles.js = <<>>
    /\ ExtractedOfCall.js = <<>>
    /\ apiCall.payload.script.source = <<DefInit, NL, NL, "}", NL, NL, CallInit, ";">>

\* C13: in createGamePage, for style and for script: explicit text, when supplied,
\* is the text selected, verbatim, and nothing extracted from the markup for that
\* kind is included; the extracted text is selected only when the explicit text is
\* absent or empty; the two are never merged.
C13_ExplicitOverExtracted ==
    ReachedSave =>
        LET g == apiCall.gameFiles
            style == apiCall.payload.style.source
            script == apiCall.payload.script.source
            fonts == ExtractFontImports(g.html)
            fontLen == IF fonts = <<>> THEN 0 ELSE Len(fonts) + 2
            HasExplicit(t) == t /= Null /\ t /= <<>>
        IN  /\ HasExplicit(g.css) =>
                 /\ IsSuffixOf(g.css, style) /\ Len(style) = Len(g.css) + fontLen
                 /\ Lexemes(style) \cap Lexemes(ExtractedOfCall.css) = {}
            /\ ~HasExplicit(g.css) =>
                 /\ IsSuffixOf(ExtractedOfCall.css, style)
                 /\ Len(style) = Len(ExtractedOfCall.css) + fontLen
            /\ HasExplicit(g.js) =>
                 /\ script \in {g.js, <<DefInit, NL>> \o g.js \o <<NL, "}", NL, NL, CallInit, ";">>}
                 /\ Lexemes(script) \cap Lexemes(ExtractedOfCall.js) = {}
            /\ ~HasExplicit(g.js) =>
                 script \in {ExtractedOfCall.js,
                             <<DefInit, NL>> \o ExtractedOfCall.js
                                 \o <<NL, "}", NL, NL, CallInit, ";">>}

\* C13 witness: a document with its own style and script was published together
\* with an explicit game.css and game.js
C13_BothSupplied ==
    /\ ReachedSave
    /\ apiCall.gameFiles.css = <<"css2">>
    /\ apiCall.gameFiles.js = <<"x">>
    /\ ExtractedOfCall.css = <<"css1">>
    /\ ExtractedOfCall.js = <<"js1">>
    /\ "css2" \in Lexemes(apiCall.payload.style.source)

\* C14: in createGamePage, whenever extractFontImports(html) is not empty the style
\* of the payload is those directives followed by the selected style text, whether
\* that was explicit or extracted; when it is empty the style is the selected style
\* text exactly.
C14_FontImportsPrepended ==
    ReachedSave =>
        LET fonts == ExtractFontImports(apiCall.gameFiles.html)
            css == Preferred(apiCall.gameFiles.css, ExtractedOfCall.css)
            style == apiCall.payload.style.source
        IN  /\ fonts /= <<>> => style = fonts \o <<NL, NL>> \o css
            /\ fonts = <<>> => style = css

\* C14 witness: a document with a font link was published with an explicit game.css
C14_FontsBeforeExplicitStyle ==
    /\ ReachedSave
    /\ apiCall.gameFiles.css = <<"css2">>
    /\ apiCall.payload.style.source =
         <<"@import url('https://fonts.googleapis.com/css?family=A');", NL, NL, "css2">>

----------------------------------------------------------------------------
(* Claims about the content extraction (SpecDoc) *)

\* the text contains the substring "<name"
ContainsTagStart(name, t) == \E i \in 1..Len(t) : HasPrefix(t[i], "<" \o name)

\* the text between the delimiters of each block of one kind, in source order
InnerTexts(name, h) ==
    LET m == Blocks(name, h, 1)
    IN  [n \in 1..Len(m) |-> SubSeq(h, m[n][1] + 1, m[n][2] - 1)]

\* C15: for every input html the output of extractBodyContent contains neither the
\* substring "<style" nor the substring "<script"; without body delimiters it is
\* the whole document with its style and script blocks removed, trimmed.
C15_BodyHasNoStyleOrScript ==
    docPc = "body" =>
        /\ ~ContainsTagStart("style", docOut.body)
        /\ ~ContainsTagStart("script", docOut.body)
        /\ (Lexemes(doc) \cap {"<body>", "</body>"} = {})
              => docOut.body = Trim(RemoveBlocks("script", RemoveBlocks("style", doc, 1), 1))

\* C16: extractFromSingleFile returns, for style and for script separately, the
\* inner texts of all blocks of that kind joined by newline in source order; a
\* script block that only references an external resource contributes nothing of
\* its own; without a block of a kind, as for the empty input, the result for that
\* kind is the empty string.
C16_InnerTextsInOrder ==
    docPc = "single" =>
        /\ docOut.css = JoinLines(InnerTexts("style", doc))
        /\ docOut.js = JoinLines(InnerTexts("script", doc))
        /\ \A i \in 1..Len(docOut.js) : ~HasPrefix(docOut.js[i], "<script src=")
        /\ ~ContainsTagStart("style", doc) => docOut.css = <<>>
        /\ ~ContainsTagStart("script", doc) => docOut.js = <<>>

\* the link points to a stylesheet on the web-font provider's host
OnFontHost(tok) == IsLink(tok) /\ HasPrefix(LinkHref(tok), "https://fonts.googleapis.com/")

\* one directive per link of the text that is on the web-font provider's host
RECURSIVE DirectivesOf(_)
DirectivesOf(t) ==
    IF t = <<>> THEN <<>>
    ELSE IF OnFontHost(Head(t))
         THEN <<(<<"@import url('" \o LinkHref(Head(t)) \o "');">>)>> \o DirectivesOf(Tail(t))
    ELSE DirectivesOf(Tail(t))

\* the text between the first <head> and the </head> that follows it
HeadOf(h) ==
    LET opens == {i \in 1..Len(h) : h[i] = "<head>"}
        open == CHOOSE i \in opens : \A j \in opens : i <= j
        closes == {i \in (open + 1)..Len(h) : h[i] = "</head>"}
        close == CHOOSE i \in closes : \A j \in closes : i <= j
    IN  IF opens = {} THEN Null
        ELSE IF closes = {} THEN Null
        ELSE SubSeq(h, open + 1, close - 1)

\* C17: extractFontImports returns one @import directive per stylesheet link inside
\* the head section whose target is on the web-font provider's host, in order of
\* appearance and with duplicates kept; links to other hosts and links outside the
\* head produce no directive; a document without head section yields the empty string.
C17_FontImportsOfHead ==
    docPc = "fonts" =>
        IF HeadOf(doc) = Null THEN docOut.fonts = <<>>
        ELSE docOut.fonts = JoinLines(DirectivesOf(HeadOf(doc)))

----------------------------------------------------------------------------
(* Claims about the sources of readGameFiles (Spec) *)

\* what readGameFiles returns, without a fault, for a workspace that holds the
\* three files as individual files
ReadDirectly(h, c, j) ==
    IF h = Missing \/ h = <<>> THEN [kind |-> "null", html |-> Null, css |-> Null, js |-> Null]
    ELSE [kind |-> "bundle", html |-> h,
          css |-> IF c = Missing THEN <<>> ELSE c,
          js |-> IF j = Missing THEN <<>> ELSE j]

\* the workspace holds the archive and none of the three individual files
OnlyArchive == ws.zip.present /\ ws.html = Missing /\ ws.css = Missing /\ ws.js = Missing

\* C18: whatever the three files game.html, game.css, game.js hold (each present,
\* empty or missing), when the workspace holds only an archive of them and its
\* extraction succeeds, readGameFiles returns what it returns when the same three
\* files are read as individual files.
C18_ArchiveEqualsIndividualFiles ==
    \A p \in Procs :
        (pc[p] = "done" /\ loc[p].gameFiles /= "unset" /\ loc[p].faults = {} /\ OnlyArchive)
            => LET direct == ReadDirectly(ws.zip.html, ws.zip.css, ws.zip.js)
               IN  /\ loc[p].gameFiles = direct.kind
                   /\ direct.kind = "bundle" =>
                        /\ loc[p].html = direct.html
                        /\ loc[p].css = direct.css
                        /\ loc[p].js = direct.js

TopLevelReads == {"probeHtml", "readHtml", "readCss", "readJs"}

\* C19: readGameFiles applies its sources in priority order: when game.zip exists
\* and reading it yields a bundle, that bundle is returned and the top-level
\* game.html, game.css and game.js are not read; the individual files are read only
\* when there is no archive or reading the archive returned null; next to a present
\* game.html an absent game.css or game.js degrades to the empty string.
C19_SourcesInPriorityOrder ==
    \A p \in Procs :
        LET l == loc[p]
        IN  /\ l.files = "bundle" =>
                 (l.gameFiles = "bundle" /\ l.calls \cap TopLevelReads = {})
            /\ l.calls \cap TopLevelReads /= {} =>
                 \/ l.files = "null"
                 \/ (l.files = "unset" /\ (~ws.zip.present \/ "probeZip" \in l.faults))
            /\ (l.gameFiles = "bundle" /\ l.files /= "bundle") =>
                 /\ l.html = ws.html /\ l.html /= <<>> /\ l.html /= Missing
                 /\ (ws.css = Missing \/ "readCss" \in l.faults) => l.css = <<>>
                 /\ (ws.css /= Missing /\ "readCss" \notin l.faults) => l.css = ws.css
                 /\ (ws.js = Missing \/ "readJs" \in l.faults) => l.js = <<>>
                 /\ (ws.js /= Missing /\ "readJs" \notin l.faults) => l.js = ws.js

\* C19 witness: the archive could not be read (ls threw), and the individual files,
\* a game.html without game.css and game.js, became the bundle
C19_FellBackToIndividualFiles ==
    \E p \in Procs :
        /\ pc[p] = "create"
        /\ ws.zip.present /\ ws.css = Missing /\ ws.js = Missing
        /\ "ls" \in loc[p].faults
        /\ loc[p].files = "null"
        /\ loc[p].gameFiles = "bundle"
        /\ loc[p].css = <<>> /\ loc[p].js = <<>>

----------------------------------------------------------------------------
(* Claims about interleaved invocations (SpecConc) *)

\* the invocation has extracted the archive and has not yet removed the scratch
\* directory: it is at its ls or at one of its reads
ReadingScratchDir(p) == pc[p] \in {"ls", "readZipHtml", "readZipCss", "readZipJs"}

\* what a read of an extracted file returns: null when the archive has no such
\* member, "" for an absent stylesheet or script
ExtractedText(member, absent) == IF member = Missing THEN absent ELSE member

\* C20: when two invocations of readGameFiles on one workspace interleave, each
\* invocation's reads from the scratch directory game_extracted return the files
\* its own extraction produced: no invocation removes the scratch directory
\* between another invocation's extraction and that invocation's reads.
C20_ScratchDirNotShared ==
    \A p \in Procs :
        /\ ReadingScratchDir(p) => dir.exists
        /\ loc[p].files = "bundle" =>
             /\ loc[p].html = ExtractedText(ws.zip.html, Null)
             /\ "readZipCss" \notin loc[p].faults => loc[p].css = ExtractedText(ws.zip.css, <<>>)
             /\ "readZipJs" \notin loc[p].faults => loc[p].js = ExtractedText(ws.zip.js, <<>>)

====
